---- MODULE Spec2Model ----
(***************************************************************************)
(* A model of scripts/cleanup.py: the directory probe (dir_size), the      *)
(* move-candidate scanner (scan_move_candidates), the age formatter        *)
(* (format_age), the two manifest writers and the orchestration in main.   *)
(*                                                                         *)
(* Strings the code inspects character by character (paths) are sequences  *)
(* of one-character strings.  Python's None is the empty sequence <<>> and *)
(* a present value v is <<v>>.  Timestamps are whole seconds.              *)
(***************************************************************************)
EXTENDS Integers, Sequences, FiniteSets, TLC

VARIABLES
    now,            \* the wall clock, time.time()
    ticks,          \* how often the clock has advanced
    \* ---- the filesystem under the scanned roots / the probed directory
    rootExists,     \* rootExists[r]: os.path.exists(roots[r])
    fs,             \* the files in os.walk order: [dir, err, st_size, st_mtime]
    \* ---- scan_move_candidates
    min_size, min_age_days, cutoff, candidates,
    scan_pc, ri, di, fk,
    scan_start,     \* the clock when scan_move_candidates was entered
    \* ---- dir_size / report_path
    max_entries, total, latest_mtime, scanned, errors,
    probe_pc, pi, visited,
    \* ---- format_age called on its own
    age_ts, age_now, age_out, age_pc,
    \* ---- the manifest writers
    wkind, items, output_path, dirsOnDisk, writable, file,
    write_pc, wi, runs, first_file,
    \* ---- main
    args, env, tool_status, main_pc, exit_code, delete_candidates, log

scanVars  == <<min_size, min_age_days, cutoff, candidates, scan_pc, ri, di, fk, scan_start>>
probeVars == <<max_entries, total, latest_mtime, scanned, errors, probe_pc, pi, visited>>
ageVars   == <<age_ts, age_now, age_out, age_pc>>
writeVars == <<wkind, items, output_path, dirsOnDisk, writable, file, write_pc, wi, runs, first_file>>
mainVars  == <<args, env, tool_status, main_pc, exit_code, delete_candidates, log>>
fsVars    == <<rootExists, fs>>
vars      == <<now, ticks, fsVars, scanVars, probeVars, ageVars, writeVars, mainVars>>

\* What each group of actions leaves alone.
scanFrame  == <<now, ticks, fsVars, probeVars, ageVars, writeVars, mainVars>>
probeFrame == <<now, ticks, fsVars, scanVars, ageVars, writeVars, mainVars>>
ageFrame   == <<now, ticks, fsVars, scanVars, probeVars, writeVars, mainVars>>
writeFrame == <<now, ticks, fsVars, scanVars, probeVars, ageVars, mainVars>>
mainFrame  == <<now, ticks, fsVars, scanVars, probeVars, ageVars, writeVars>>

\* ------------------------------------------------------------------ bounds
MaxFiles == 2
MaxTicks == 1

\* --------------------------------------------------------------- constants
Day    == 86400
Hour   == 3600
Minute == 60

None == <<>>
Some(v) == <<v>>
IsNone(o) == o = <<>>
Val(o) == o[1]

\* -------------------------------------------------------- character strings
\* Python's `pat in s` on strings.
Contains(pat, s) ==
    \E i \in 0..(Len(s) - Len(pat)) : SubSeq(s, i + 1, i + Len(pat)) = pat

\* os.path.join(a, b) for a relative b and an a that does not end in "/".
PathJoin(a, b) == a \o <<"/">> \o b

Home      == <<"/", "U">>
Desktop   == <<"D", "e", "s", "k", "t", "o", "p">>
Documents == <<"D", "o", "c", "u", "m", "e", "n", "t", "s">>
Downloads == <<"D", "o", "w", "n", "l", "o", "a", "d", "s">>
Movies    == <<"M", "o", "v", "i", "e", "s">>
Pictures  == <<"P", "i", "c", "t", "u", "r", "e", "s">>
Music     == <<"M", "u", "s", "i", "c">>

DotTrash   == <<".", "T", "r", "a", "s", "h">>
DotGit     == <<".", "g", "i", "t">>
DotGithub  == <<".", "g", "i", "t", "h", "u", "b">>
Objects    == <<"o", "b", "j">>

SlashTrash == <<"/">> \o DotTrash
SlashGit   == <<"/">> \o DotGit

\* The roots of scan_move_candidates, in the order the code lists them.
roots == << PathJoin(Home, Desktop), PathJoin(Home, Documents),
            PathJoin(Home, Downloads), PathJoin(Home, Movies),
            PathJoin(Home, Pictures), PathJoin(Home, Music) >>

NumRoots == Len(roots)

\* The directories below the roots in os.walk order (top-down: a directory
\* before its subdirectories, root after root).  segs are the directory
\* names below the root.
Tree == <<
    [root |-> 1, segs |-> <<>>],
    [root |-> 1, segs |-> <<DotGit>>],
    [root |-> 1, segs |-> <<DotGit, Objects>>],
    [root |-> 1, segs |-> <<DotGithub>>],
    [root |-> 2, segs |-> <<>>],
    [root |-> 2, segs |-> <<DotTrash>> ] >>

RECURSIVE JoinAll(_, _)
JoinAll(base, segs) ==
    IF segs = <<>> THEN base ELSE JoinAll(PathJoin(base, Head(segs)), Tail(segs))

\* The dirpath os.walk yields for directory d of Tree.
DirPath(d) == JoinAll(roots[Tree[d].root], Tree[d].segs)

FileChars == <<"a", "b", "c", "d", "e", "f">>
FileName(i) == <<"f", FileChars[i]>>

\* full = os.path.join(dirpath, name) of the i-th file of fs.
FullPath(i) == PathJoin(DirPath(fs[i].dir), FileName(i))

\* safe_stat: the stat result, or None when os.stat raises OSError.
safe_stat(f) == IF f.err THEN None ELSE Some([st_size |-> f.st_size, st_mtime |-> f.st_mtime])

\* ------------------------------------------------- the modelled filesystem
StartClock == 2 * Day

Sizes  == {1, 2}
Mtimes == {0, Day, Day + 1}

\* The directories that hold files; .git itself holds only its subdirectory.
FileDirs == { d \in 1..Len(Tree) : Tree[d].segs # <<DotGit>> }

FileUniverse ==
    { [dir |-> d, err |-> FALSE, st_size |-> s, st_mtime |-> m] :
        d \in FileDirs, s \in Sizes, m \in Mtimes }
    \cup { [dir |-> d, err |-> TRUE, st_size |-> 0, st_mtime |-> 0] : d \in FileDirs }

\* Files come in walk order: directory after directory of Tree.
WalkOrdered(f) == \A i \in 1..(Len(f) - 1) : f[i].dir <= f[i + 1].dir

FileSeqs ==
    UNION { { f \in [1..n -> FileUniverse] : WalkOrdered(f) } : n \in 0..MaxFiles }

\* The indices in fs of the files of directory d, in walk order.
FilesIn(d) == SelectSeq([i \in 1..Len(fs) |-> i], LAMBDA i : fs[i].dir = d)

FsInit ==
    /\ rootExists \in [1..NumRoots -> BOOLEAN]
    /\ \A r \in 1..NumRoots : rootExists[r] => \E d \in 1..Len(Tree) : Tree[d].root = r
    /\ fs \in FileSeqs
    /\ \A i \in 1..Len(fs) : rootExists[Tree[fs[i].dir].root]

Tick ==
    /\ ticks < MaxTicks
    /\ ticks' = ticks + 1
    /\ now' = now + 1
    /\ UNCHANGED <<fsVars, scanVars, probeVars, ageVars, writeVars, mainVars>>

\* ------------------------------------------------- scan_move_candidates
\* The subtree test of the walk: `"/.Trash" in dirpath or "/.git" in dirpath`.
Excluded(dirpath) == Contains(SlashTrash, dirpath) \/ Contains(SlashGit, dirpath)

\* A faulty variant of SizeSkip, with the bound exclusive.
SizeSkipStrict(st, m) == st.st_size <= m

\* `if st.st_size < min_size: continue`
SizeSkip(st, m) == st.st_size < m

\* `if st.st_mtime > cutoff: continue`
AgeSkip(st, c) == st.st_mtime > c

\* candidates.sort(key=lambda x: x["size"], reverse=True): a stable sort,
\* descending by size; list.sort keeps equal keys in their original order
\* under reverse=True as well.
RECURSIVE InsertDesc(_, _)
InsertDesc(x, s) ==
    IF s = <<>> THEN <<x>>
    ELSE IF Head(s).size >= x.size THEN <<Head(s)>> \o InsertDesc(x, Tail(s))
    ELSE <<x>> \o s

\* A faulty variant of the sort: descending, equal sizes in reverse order.
RECURSIVE InsertDescTiesFirst(_, _)
InsertDescTiesFirst(x, s) ==
    IF s = <<>> THEN <<x>>
    ELSE IF Head(s).size > x.size THEN <<Head(s)>> \o InsertDescTiesFirst(x, Tail(s))
    ELSE <<x>> \o s

RECURSIVE SortTiesReversed(_)
SortTiesReversed(c) ==
    IF c = <<>> THEN <<>>
    ELSE InsertDescTiesFirst(c[Len(c)], SortTiesReversed(SubSeq(c, 1, Len(c) - 1)))

RECURSIVE SortBySizeDesc(_)
SortBySizeDesc(c) ==
    IF c = <<>> THEN <<>>
    ELSE InsertDesc(c[Len(c)], SortBySizeDesc(SubSeq(c, 1, Len(c) - 1)))

ScanIdle ==
    /\ min_size = 0 /\ min_age_days = 0 /\ cutoff = 0 /\ candidates = <<>>
    /\ scan_pc = "off" /\ ri = 0 /\ di = 0 /\ fk = 0 /\ scan_start = 0

ScanInit ==
    /\ min_size \in {1, 2}
    /\ min_age_days \in {0, 1}
    /\ cutoff = 0 /\ candidates = <<>>
    /\ scan_pc = "idle" /\ ri = 0 /\ di = 0 /\ fk = 0 /\ scan_start = 0

\* Entry: lines 115-125.
ScanStart ==
    /\ scan_pc = "idle"
    /\ cutoff' = now - (min_age_days * Day)
    /\ candidates' = <<>>
    /\ ri' = 1
    /\ scan_pc' = "roots"
    /\ scan_start' = now
    /\ UNCHANGED <<min_size, min_age_days, di, fk, scanFrame>>

\* `for root in roots: if not os.path.exists(root): continue`, else the walk
\* of the root begins with the root directory itself.
ScanRoot ==
    /\ scan_pc = "roots"
    /\ ri <= NumRoots
    /\ IF ~rootExists[ri]
       THEN /\ ri' = ri + 1
            /\ UNCHANGED <<scan_pc, di>>
       ELSE /\ di' = CHOOSE d \in 1..Len(Tree) :
                        Tree[d].root = ri /\ \A e \in 1..(d - 1) : Tree[e].root # ri
            /\ scan_pc' = "dirs"
            /\ UNCHANGED ri
    /\ UNCHANGED <<min_size, min_age_days, cutoff, candidates, fk, scan_start, scanFrame>>

\* Where the walk goes after directory di of root ri: the next directory of
\* the same root, or the next root.
LeaveDir ==
    IF di < Len(Tree) /\ Tree[di + 1].root = ri
    THEN /\ di' = di + 1
         /\ scan_pc' = "dirs"
         /\ UNCHANGED ri
    ELSE /\ ri' = ri + 1
         /\ scan_pc' = "roots"
         /\ UNCHANGED di

\* One (dirpath, dirnames, filenames) of os.walk: lines 129-132.
ScanDir ==
    /\ scan_pc = "dirs"
    /\ IF Excluded(DirPath(di)) \/ FilesIn(di) = <<>>
       THEN LeaveDir /\ UNCHANGED fk
       ELSE /\ scan_pc' = "files"
            /\ fk' = 1
            /\ UNCHANGED <<ri, di>>
    /\ UNCHANGED <<min_size, min_age_days, cutoff, candidates, scan_start, scanFrame>>

\* One file name of the directory: lines 132-147.
ScanFile ==
    /\ scan_pc = "files"
    /\ LET i  == FilesIn(di)[fk]
           st == safe_stat(fs[i])
       IN  candidates' =
               IF IsNone(st) THEN candidates
               ELSE IF SizeSkip(Val(st), min_size) THEN candidates
               ELSE IF AgeSkip(Val(st), cutoff) THEN candidates
               ELSE Append(candidates,
                           [path |-> FullPath(i), size |-> Val(st).st_size,
                            mtime |-> Val(st).st_mtime])
    /\ IF fk < Len(FilesIn(di))
       THEN fk' = fk + 1 /\ UNCHANGED <<scan_pc, ri, di>>
       ELSE LeaveDir /\ UNCHANGED fk
    /\ UNCHANGED <<min_size, min_age_days, cutoff, scan_start, scanFrame>>

\* Lines 148-149: the sort, and the return.
ScanReturn ==
    /\ scan_pc = "roots"
    /\ ri > NumRoots
    /\ candidates' = SortBySizeDesc(candidates)
    /\ scan_pc' = "done"
    /\ UNCHANGED <<min_size, min_age_days, cutoff, ri, di, fk, scan_start, scanFrame>>

\* ------------------------------------------------------------ format_age
Digit(d) == <<"0", "1", "2", "3", "4", "5", "6", "7", "8", "9">>[d + 1]

\* str(n) of a non-negative integer.
RECURSIVE StrNat(_)
StrNat(n) == IF n < 10 THEN <<Digit(n)>> ELSE StrNat(n \div 10) \o <<Digit(n % 10)>>

\* The text an f-string gives an integer.
Str(n) == IF n < 0 THEN <<"-">> \o StrNat(0 - n) ELSE StrNat(n)

Unknown == <<"u", "n", "k", "n", "o", "w", "n">>
ZeroDays == <<"0", "d">>

\* A faulty variant of InFuture: the guard left out.
InFutureNever(ts, clock) == FALSE

\* `if ts > now: return "0d"`
InFuture(ts, clock) == ts > clock

\* format_age with the clock value time.time() returned: `//` is floor
\* division, as \div is.
format_age(ts, clock) ==
    IF IsNone(ts) THEN Unknown
    ELSE IF InFuture(Val(ts), clock) THEN ZeroDays
    ELSE LET age     == clock - Val(ts)
             days    == age \div Day
             hours   == age \div Hour
             minutes == age \div Minute
         IN  IF days > 0 THEN Str(days) \o <<"d">>
             ELSE IF hours > 0 THEN Str(hours) \o <<"h">>
             ELSE Str(minutes) \o <<"m">>

AgeIdle == age_ts = None /\ age_now = 0 /\ age_out = <<>> /\ age_pc = "off"

AgeOffsets == {0 - Day, 0 - Hour, 0 - Minute, -1, 0, 1, Minute, Day}

AgeInit ==
    /\ age_ts \in {None} \cup { Some(now + d) : d \in AgeOffsets }
    /\ age_now = 0 /\ age_out = <<>> /\ age_pc = "idle"

\* One call of format_age: the clock is read inside the call.
FormatAgeCall ==
    /\ age_pc = "idle"
    /\ age_now' = now
    /\ age_out' = format_age(age_ts, now)
    /\ age_pc' = "done"
    /\ UNCHANGED <<age_ts, ageFrame>>

\* ---------------------------------------------------------------- dir_size
\* A faulty variant of CapReached: off by one.
CapReachedLate(cap, n) == ~IsNone(cap) /\ Val(cap) # 0 /\ n > Val(cap)

\* `if max_entries and scanned >= max_entries`: None and 0 are both falsy.
CapReached(cap, n) == ~IsNone(cap) /\ Val(cap) # 0 /\ n >= Val(cap)

\* A faulty variant of LatestUpdate: the comparison turned around.
LatestKeepOldest(latest, m) == IF IsNone(latest) \/ m < Val(latest) THEN Some(m) ELSE latest

\* `if latest_mtime is None or st.st_mtime > latest_mtime: latest_mtime = ...`
LatestUpdate(latest, m) == IF IsNone(latest) \/ m > Val(latest) THEN Some(m) ELSE latest

\* A faulty variant of StatRaises: os.stat called without the try.
StatRaisesUncaught(f) == f.err

\* Whether a failing os.stat propagates out of safe_stat: its except clause
\* catches OSError and returns None, so it never does.
StatRaises(f) == FALSE

ProbeIdle ==
    /\ max_entries = None /\ total = 0 /\ latest_mtime = None /\ scanned = 0
    /\ errors = 0 /\ probe_pc = "off" /\ pi = 0 /\ visited = 0

ProbeInit ==
    /\ max_entries \in {None} \cup { Some(n) : n \in -1..MaxFiles }
    /\ total = 0 /\ latest_mtime = None /\ scanned = 0
    /\ errors = 0 /\ probe_pc = "idle" /\ pi = 0 /\ visited = 0

\* Lines 51-54.
ProbeStart ==
    /\ probe_pc = "idle"
    /\ rootExists[1]
    /\ total' = 0 /\ latest_mtime' = None /\ scanned' = 0 /\ errors' = 0
    /\ pi' = 1 /\ visited' = 0
    /\ probe_pc' = "walk"
    /\ UNCHANGED <<max_entries, probeFrame>>

\* One file name of the walk: lines 56-67.
ProbeFile ==
    /\ probe_pc = "walk"
    /\ pi <= Len(fs)
    /\ visited' = visited + 1
    /\ LET st == safe_stat(fs[pi]) IN
       IF StatRaises(fs[pi])
       THEN /\ probe_pc' = "raised"
            /\ UNCHANGED <<total, latest_mtime, scanned, errors, pi>>
       ELSE IF IsNone(st)
       THEN /\ errors' = errors + 1
            /\ pi' = pi + 1
            /\ UNCHANGED <<total, latest_mtime, scanned, probe_pc>>
       ELSE /\ total' = total + Val(st).st_size
            /\ latest_mtime' = LatestUpdate(latest_mtime, Val(st).st_mtime)
            /\ scanned' = scanned + 1
            /\ IF CapReached(max_entries, scanned + 1)
               THEN probe_pc' = "returned" /\ UNCHANGED pi
               ELSE pi' = pi + 1 /\ UNCHANGED probe_pc
            /\ UNCHANGED errors
    /\ UNCHANGED <<max_entries, probeFrame>>

\* Line 68: the walk is exhausted.
ProbeReturn ==
    /\ probe_pc = "walk"
    /\ pi > Len(fs)
    /\ probe_pc' = "returned"
    /\ UNCHANGED <<max_entries, total, latest_mtime, scanned, errors, pi, visited, probeFrame>>

\* ------------------------------------------------------ the manifest writers
Header == <<"p", "a", "t", "h", ",", "s", "i", "z", "e", "_", "b", "y", "t", "e", "s", ",", "a", "g", "e">>

\* posixpath.dirname: everything up to the last "/", trailing slashes
\* stripped unless the head is nothing but slashes.
LastSlash(p) == IF \E i \in 1..Len(p) : p[i] = "/"
                THEN CHOOSE i \in 1..Len(p) : p[i] = "/" /\ \A j \in (i + 1)..Len(p) : p[j] # "/"
                ELSE 0

RECURSIVE RStripSlash(_)
RStripSlash(h) ==
    IF h # <<>> /\ h[Len(h)] = "/" THEN RStripSlash(SubSeq(h, 1, Len(h) - 1)) ELSE h

dirname(p) ==
    LET head == SubSeq(p, 1, LastSlash(p))
    IN  IF head # <<>> /\ \E i \in 1..Len(head) : head[i] # "/" THEN RStripSlash(head) ELSE head

\* The directory and every directory above it that os.makedirs creates.
Ancestors(name) ==
    {name} \cup { SubSeq(name, 1, i - 1) : i \in { j \in 2..Len(name) : name[j] = "/" } }

\* os.makedirs(name, exist_ok=True) raises for the empty name (mkdir("")
\* fails with FileNotFoundError and "" is no directory), and when a missing
\* directory cannot be created.
MakedirsRaises(name, onDisk, canWrite) ==
    \/ name = <<>>
    \/ (name \notin onDisk /\ ~canWrite)

\* open(output_path, "w") raises when the file cannot be created or written.
OpenRaises(path, onDisk, canWrite) ==
    \/ ~canWrite
    \/ (dirname(path) # <<>> /\ dirname(path) \notin onDisk)

\* A faulty variant of OpenTruncates: the file opened in mode "a".
OpenAppends(prev) == IF IsNone(prev) THEN <<>> ELSE Val(prev)

\* Mode "w" truncates: whatever the file held is gone.
OpenTruncates(prev) == <<>>

\* item['mtime'] of a move candidate, item['latest'] of a directory report.
AgeField(kind, item) == IF kind = "move" THEN Some(item.mtime) ELSE item.latest

\* f"{item['path']},{item['size']},{format_age(...)}" without the newline.
Row(kind, item, clock) ==
    item.path \o <<",">> \o Str(item.size) \o <<",">> \o format_age(AgeField(kind, item), clock)

BarePath   == <<"m">>
NestedPath == <<"s", "/", "m">>

WriteIdle ==
    /\ wkind = "move" /\ items = <<>> /\ output_path = NestedPath
    /\ dirsOnDisk = {} /\ writable = TRUE /\ file = None
    /\ write_pc = "off" /\ wi = 0 /\ runs = 0 /\ first_file = None

\* os.makedirs(os.path.dirname(output_path), exist_ok=True): lines 153, 161.
WriteMakedirs ==
    /\ write_pc = "idle"
    /\ LET d == dirname(output_path) IN
       IF MakedirsRaises(d, dirsOnDisk, writable)
       THEN write_pc' = "raised" /\ UNCHANGED dirsOnDisk
       ELSE write_pc' = "open" /\ dirsOnDisk' = dirsOnDisk \cup Ancestors(d)
    /\ UNCHANGED <<wkind, items, output_path, writable, file, wi, runs, first_file, writeFrame>>

\* open(output_path, "w", encoding="utf-8"): lines 154, 162.
WriteOpen ==
    /\ write_pc = "open"
    /\ IF OpenRaises(output_path, dirsOnDisk, writable)
       THEN write_pc' = "raised" /\ UNCHANGED file
       ELSE write_pc' = "header" /\ file' = Some(OpenTruncates(file))
    /\ UNCHANGED <<wkind, items, output_path, dirsOnDisk, writable, wi, runs, first_file, writeFrame>>

\* f.write("path,size_bytes,age\n"): lines 155, 163.
WriteHeader ==
    /\ write_pc = "header"
    /\ file' = Some(Append(Val(file), Header))
    /\ wi' = 1
    /\ write_pc' = "rows"
    /\ UNCHANGED <<wkind, items, output_path, dirsOnDisk, writable, runs, first_file, writeFrame>>

\* One item of the loop: lines 156-157, 164-165.
WriteRow ==
    /\ write_pc = "rows"
    /\ wi <= Len(items)
    /\ file' = Some(Append(Val(file), Row(wkind, items[wi], now)))
    /\ wi' = wi + 1
    /\ UNCHANGED <<wkind, items, output_path, dirsOnDisk, writable, write_pc, runs, first_file, writeFrame>>

\* The end of the with block: the file is closed and the writer returns.
WriteClose ==
    /\ write_pc = "rows"
    /\ wi > Len(items)
    /\ write_pc' = "returned"
    /\ runs' = runs + 1
    /\ UNCHANGED <<wkind, items, output_path, dirsOnDisk, writable, file, wi, first_file, writeFrame>>

\* A second call with the same list, as when the tool is run again.
Rewrites == 2

WriteAgain ==
    /\ write_pc = "returned"
    /\ runs < Rewrites
    /\ first_file' = IF runs = 1 THEN file ELSE first_file
    /\ write_pc' = "idle"
    /\ UNCHANGED <<wkind, items, output_path, dirsOnDisk, writable, file, wi, runs, writeFrame>>

ItemPaths == { PathJoin(roots[1], FileName(1)), PathJoin(roots[2], FileName(2)) }

MoveItems == { [path |-> p, size |-> s, mtime |-> m] : p \in ItemPaths, s \in Sizes, m \in {Day, Day + 1} }

DeleteItems ==
    { [path |-> p, size |-> s, latest |-> Some(Day + 1), scanned |-> 1, errors |-> 0] :
        p \in ItemPaths, s \in Sizes }
    \cup { [path |-> p, size |-> 0, latest |-> None, scanned |-> 0, errors |-> e] :
             p \in ItemPaths, e \in {0, 1} }

\* A move list comes out of scan_move_candidates, so it is sorted.
SizeDescending(c) == \A i \in 1..(Len(c) - 1) : c[i].size >= c[i + 1].size

StaleLine == <<"o", "l", "d">>

WriteInit ==
    /\ wkind \in {"move", "delete"}
    /\ items \in UNION { [1..n -> IF wkind = "move" THEN MoveItems ELSE DeleteItems] : n \in 0..MaxFiles }
    /\ wkind = "move" => SizeDescending(items)
    /\ output_path \in {BarePath, NestedPath}
    /\ writable \in BOOLEAN
    /\ dirsOnDisk \in {{}, {dirname(NestedPath)}}
    /\ file \in {None, Some(<<StaleLine, Header, StaleLine>>)}
    /\ (~IsNone(file) /\ dirname(output_path) # <<>>) => dirname(output_path) \in dirsOnDisk
    /\ write_pc = "idle" /\ wi = 0 /\ runs = 0 /\ first_file = None

\* -------------------------------------------------------------------- main
\* The cache directories main reports on, by position in xcode_paths.
NumXcodePaths == 4

\* A faulty variant of XcodeOnlyReturns: the early return left out.
XcodeOnlyIgnored(a) == FALSE

\* `if args.xcode_only: return 0`
XcodeOnlyReturns(a) == a.xcode_only

\* run_move returns subprocess.call(cmd), and main returns that.
run_move(status) == status

MainIdle ==
    /\ args = [xcode_only |-> FALSE, run_move |-> FALSE, scan_move |-> FALSE]
    /\ env = [exists |-> {}, size_ok |-> TRUE, write_ok |-> TRUE, tool_found |-> TRUE]
    /\ tool_status = 0 /\ main_pc = "off" /\ exit_code = None
    /\ delete_candidates = <<>> /\ log = <<>>

ToolStatuses == {0, 1, 101}

\* args: the three flags that steer main.  env: which cache directories
\* exist, whether --min-move-size parses, whether the manifests can be
\* written, whether cargo can be started.  tool_status: what the delegated
\* tool would exit with.
MainInit ==
    /\ args \in [xcode_only : BOOLEAN, run_move : BOOLEAN, scan_move : BOOLEAN]
    /\ env \in [exists : {{}, {2}, {1, 4}}, size_ok : BOOLEAN, write_ok : BOOLEAN,
               tool_found : BOOLEAN]
    /\ tool_status \in ToolStatuses
    /\ main_pc = "report" /\ exit_code = None
    /\ delete_candidates = <<>> /\ log = <<>>

\* Lines 213-232: report_path on each cache directory, in order; those that
\* exist become delete candidates.
MainReport ==
    /\ main_pc = "report"
    /\ delete_candidates' =
           SelectSeq([i \in 1..NumXcodePaths |-> i], LAMBDA i : i \in env.exists)
    /\ log' = Append(log, "report")
    /\ main_pc' = "delete_csv"
    /\ UNCHANGED <<args, env, tool_status, exit_code, mainFrame>>

\* Lines 234-236: the delete manifest, written only when something was found.
MainWriteDelete ==
    /\ main_pc = "delete_csv"
    /\ IF delete_candidates = <<>>
       THEN main_pc' = "xcode_only" /\ UNCHANGED log
       ELSE IF env.write_ok
       THEN main_pc' = "xcode_only" /\ log' = Append(log, "delete_manifest")
       ELSE main_pc' = "raised" /\ UNCHANGED log
    /\ UNCHANGED <<args, env, tool_status, exit_code, delete_candidates, mainFrame>>

\* Lines 238-239.
MainXcodeOnly ==
    /\ main_pc = "xcode_only"
    /\ IF XcodeOnlyReturns(args)
       THEN main_pc' = "exited" /\ exit_code' = Some(0)
       ELSE main_pc' = "scan_move" /\ UNCHANGED exit_code
    /\ UNCHANGED <<args, env, tool_status, delete_candidates, log, mainFrame>>

\* Lines 241-247: parse_size, scan_move_candidates, write_move_candidates.
MainScanMove ==
    /\ main_pc = "scan_move"
    /\ IF ~args.scan_move
       THEN main_pc' = "run_move" /\ UNCHANGED log
       ELSE IF ~env.size_ok
       THEN main_pc' = "raised" /\ UNCHANGED log
       ELSE IF ~env.write_ok
       THEN main_pc' = "raised" /\ log' = Append(log, "scan")
       ELSE main_pc' = "run_move" /\ log' = log \o <<"scan", "move_manifest">>
    /\ UNCHANGED <<args, env, tool_status, exit_code, delete_candidates, mainFrame>>

\* Lines 249-255.
MainRunMove ==
    /\ main_pc = "run_move"
    /\ IF args.run_move /\ ~env.tool_found
       THEN /\ main_pc' = "raised"
            /\ UNCHANGED <<log, exit_code>>
       ELSE IF args.run_move
       THEN /\ log' = Append(log, "run_move")
            /\ exit_code' = Some(run_move(tool_status))
            /\ main_pc' = "exited"
       ELSE /\ exit_code' = Some(0)
            /\ main_pc' = "exited"
            /\ UNCHANGED log
    /\ UNCHANGED <<args, env, tool_status, delete_candidates, mainFrame>>

\* ---------------------------------------------------------- specifications
ClockInit == now = StartClock /\ ticks = 0

FsIdle == rootExists = [r \in 1..NumRoots |-> FALSE] /\ fs = <<>>

\* scan_move_candidates over every modelled filesystem.
ScanSpecInit ==
    ClockInit /\ FsInit /\ ScanInit /\ ProbeIdle /\ AgeIdle /\ WriteIdle /\ MainIdle

ScanNext ==
    \/ Tick
    \/ ScanStart
    \/ ScanRoot
    \/ ScanDir
    \/ ScanFile
    \/ ScanReturn

ScanSpec == ScanSpecInit /\ [][ScanNext]_vars

\* dir_size on one directory tree, then the report and the delete manifest
\* made of it (report_path, and main's lines 217-235).
ProbedPath == PathJoin(Home, <<"X">>)

ProbeFsInit ==
    /\ rootExists \in { [r \in 1..NumRoots |-> FALSE], [r \in 1..NumRoots |-> r = 1] }
    /\ fs \in FileSeqs
    /\ \A i \in 1..Len(fs) : rootExists[Tree[fs[i].dir].root]

\* report_path: `if not os.path.exists(path): return None`.
ReportMissing ==
    /\ probe_pc = "idle"
    /\ ~rootExists[1]
    /\ probe_pc' = "notfound"
    /\ UNCHANGED <<max_entries, total, latest_mtime, scanned, errors, pi, visited, probeFrame>>

\* report_path's dictionary (lines 75-81), handed to write_delete_candidates.
ReportPath ==
    /\ probe_pc = "returned"
    /\ write_pc = "off"
    /\ items' = << [path |-> ProbedPath, size |-> total, latest |-> latest_mtime,
                    scanned |-> scanned, errors |-> errors] >>
    /\ wkind' = "delete"
    /\ write_pc' = "idle"
    /\ UNCHANGED <<output_path, dirsOnDisk, writable, file, wi, runs, first_file>>
    /\ UNCHANGED <<now, ticks, fsVars, scanVars, probeVars, ageVars, mainVars>>

ProbeSpecInit ==
    ClockInit /\ ProbeFsInit /\ ScanIdle /\ ProbeInit /\ AgeIdle /\ WriteIdle /\ MainIdle

ProbeNext ==
    \/ Tick
    \/ ReportMissing
    \/ ProbeStart
    \/ ProbeFile
    \/ ProbeReturn
    \/ ReportPath
    \/ WriteMakedirs
    \/ WriteOpen
    \/ WriteHeader
    \/ WriteRow
    \/ WriteClose

ProbeSpec == ProbeSpecInit /\ [][ProbeNext]_vars

\* format_age on its own.
AgeClocks == {Minute, Hour, Day, StartClock}

AgeSpecInit ==
    /\ now \in AgeClocks /\ ticks = 0
    /\ FsIdle /\ ScanIdle /\ ProbeIdle /\ AgeInit /\ WriteIdle /\ MainIdle

AgeNext ==
    \/ Tick
    \/ FormatAgeCall

AgeSpec == AgeSpecInit /\ [][AgeNext]_vars

\* The manifest writers on their own.
WriteSpecInit ==
    ClockInit /\ FsIdle /\ ScanIdle /\ ProbeIdle /\ AgeIdle /\ WriteInit /\ MainIdle

WriteNext ==
    \/ Tick
    \/ WriteMakedirs
    \/ WriteOpen
    \/ WriteHeader
    \/ WriteRow
    \/ WriteClose
    \/ WriteAgain

WriteSpec == WriteSpecInit /\ [][WriteNext]_vars

\* main.
MainSpecInit ==
    ClockInit /\ FsIdle /\ ScanIdle /\ ProbeIdle /\ AgeIdle /\ WriteIdle /\ MainInit

MainNext ==
    \/ MainReport
    \/ MainWriteDelete
    \/ MainXcodeOnly
    \/ MainScanMove
    \/ MainRunMove

MainSpec == MainSpecInit /\ [][MainNext]_vars

\* ================================================================ claims
Range(f) == { f[i] : i \in DOMAIN f }

\* s.split(sep) on character strings.
RECURSIVE SplitOn(_, _)
SplitOn(sep, s) ==
    IF \A i \in 1..Len(s) : s[i] # sep THEN <<s>>
    ELSE LET i == CHOOSE j \in 1..Len(s) : s[j] = sep /\ \A l \in 1..(j - 1) : s[l] # sep
         IN  <<SubSeq(s, 1, i - 1)>> \o SplitOn(sep, SubSeq(s, i + 1, Len(s)))

\* int(s) of a string of decimal digits.
RECURSIVE ParseNat(_)
ParseNat(s) ==
    IF s = <<>> THEN 0
    ELSE 10 * ParseNat(SubSeq(s, 1, Len(s) - 1)) + (CHOOSE d \in 0..9 : Digit(d) = s[Len(s)])

RECURSIVE SumSizes(_)
SumSizes(S) ==
    IF S = {} THEN 0 ELSE LET i == CHOOSE j \in S : TRUE IN fs[i].st_size + SumSizes(S \ {i})

\* ---- scan_move_candidates
\* The cutoff of the scan: the clock at its start less the minimum age.
ScanCutoff == scan_start - (min_age_days * Day)

\* How often file i of the filesystem is in the candidate list.
Occurrences(i) == Cardinality({ k \in 1..Len(candidates) : candidates[k].path = FullPath(i) })

\* File i lies in a subtree the scan leaves out.
InExcludedSubtree(i) == Excluded(DirPath(fs[i].dir))

Qualifies(i) ==
    /\ ~InExcludedSubtree(i)
    /\ ~fs[i].err
    /\ fs[i].st_size >= min_size
    /\ fs[i].st_mtime <= ScanCutoff

\* C1: when scan_move_candidates returns, a file is in the list if and only
\* if it lies outside the subtrees the scan leaves out, its stat succeeded,
\* its size is at least min_size and its mtime at most the cutoff taken from
\* the clock at the start of the scan (both bounds inclusive); a qualifying
\* file is there exactly once, with its own size and mtime, and nothing else
\* is in the list.
C1_CandidatesAreTheQualifyingFiles ==
    scan_pc = "done" =>
        /\ \A i \in 1..Len(fs) : Occurrences(i) = IF Qualifies(i) THEN 1 ELSE 0
        /\ \A k \in 1..Len(candidates) : \E i \in 1..Len(fs) :
               candidates[k] = [path |-> FullPath(i), size |-> fs[i].st_size,
                                mtime |-> fs[i].st_mtime]

\* A scan during which the clock advanced, that returned a file whose size
\* is min_size and whose mtime is the cutoff, and left out a large enough
\* file one second newer than the cutoff.
C1_Witness ==
    /\ scan_pc = "done"
    /\ now > scan_start
    /\ \E i, j \in 1..Len(fs) :
           /\ ~fs[i].err /\ fs[i].st_size = min_size /\ fs[i].st_mtime = ScanCutoff
           /\ Occurrences(i) = 1
           /\ ~fs[j].err /\ ~InExcludedSubtree(j)
           /\ fs[j].st_size >= min_size /\ fs[j].st_mtime = ScanCutoff + 1
           /\ Occurrences(j) = 0

\* The position in the walk of the file a candidate was made from.
DiscoveryIndex(c) == CHOOSE i \in 1..Len(fs) : FullPath(i) = c.path

\* C2: the returned list is non-increasing by size, and candidates of equal
\* size are in discovery order (roots in the order given, walk order within
\* a root).
C2_SortedDescendingStable ==
    scan_pc = "done" =>
        \A k, l \in 1..Len(candidates) :
            k < l =>
                /\ candidates[k].size >= candidates[l].size
                /\ candidates[k].size = candidates[l].size =>
                       DiscoveryIndex(candidates[k]) < DiscoveryIndex(candidates[l])

\* A returned list with two candidates of one size that come from two roots.
C2_Witness ==
    /\ scan_pc = "done"
    /\ Len(candidates) >= 2
    /\ candidates[1].size = candidates[2].size
    /\ Tree[fs[DiscoveryIndex(candidates[1])].dir].root
           # Tree[fs[DiscoveryIndex(candidates[2])].dir].root

ReservedNames == {DotTrash, DotGit}

\* Some directory of the file's path is named exactly as a reserved name.
InReservedSubtree(i) ==
    \E seg \in Range(SplitOn("/", DirPath(fs[i].dir))) : seg \in ReservedNames

\* C3: a file (statable, large and old enough) is left out exactly when some
\* directory segment of its path is a reserved name by exact match; a
\* segment that merely starts with a reserved name excludes nothing.
C3_ExcludedExactlyByReservedSegment ==
    scan_pc = "done" =>
        \A i \in 1..Len(fs) :
            (~fs[i].err /\ fs[i].st_size >= min_size /\ fs[i].st_mtime <= ScanCutoff)
                => (Occurrences(i) = 0 <=> InReservedSubtree(i))

\* ---- dir_size
\* The files dir_size has counted in scanned: those visited whose stat
\* succeeded.
Counted == { i \in 1..visited : ~fs[i].err }

Statable == { i \in 1..Len(fs) : ~fs[i].err }

\* C4, as stated: with any max_entries supplied, 0 included, the returned
\* scanned count does not exceed max_entries.
C4_ScannedWithinAnyCap ==
    (probe_pc = "returned" /\ ~IsNone(max_entries) /\ Val(max_entries) >= 0)
        => scanned <= Val(max_entries)

\* C4, amended: with a positive max_entries the walk goes on only while
\* scanned is below it, the returned scanned count does not exceed it, a
\* walk cut short returns exactly max_entries files, and the returned total
\* is the sum of the sizes of the files counted, a lower bound of the sum
\* over the tree.  max_entries = 0 caps nothing: the whole tree is walked.
C4_PositiveCapBoundsScanned ==
    /\ (probe_pc = "walk" /\ ~IsNone(max_entries) /\ Val(max_entries) >= 1)
           => scanned < Val(max_entries)
    /\ (probe_pc = "returned" /\ ~IsNone(max_entries) /\ Val(max_entries) >= 1)
           => /\ scanned <= Val(max_entries)
              /\ visited < Len(fs) => scanned = Val(max_entries)
              /\ scanned = Cardinality(Counted)
              /\ total = SumSizes(Counted)
              /\ total <= SumSizes(Statable)
    /\ (probe_pc = "returned" /\ max_entries = Some(0)) => visited = Len(fs)

\* A probe capped at one file that returned before the end of the tree.
C4_Witness ==
    /\ probe_pc = "returned"
    /\ max_entries = Some(1)
    /\ scanned = 1
    /\ visited < Len(fs)

\* C5: a file whose stat fails adds one to errors and nothing to total,
\* latest_mtime or scanned, and the probe never aborts: it is never left by
\* an exception, it can always take its next step, and scanned + errors is
\* the number of file entries visited.
C5_StatErrorsCountedNeverAbort ==
    /\ probe_pc # "raised"
    /\ probe_pc = "walk" => ENABLED (ProbeFile \/ ProbeReturn)
    /\ probe_pc \in {"walk", "returned"} =>
           /\ scanned + errors = visited
           /\ errors = Cardinality({ i \in 1..visited : fs[i].err })
           /\ scanned = Cardinality(Counted)
           /\ total = SumSizes(Counted)
           /\ IsNone(latest_mtime) \/ \E i \in Counted : fs[i].st_mtime = Val(latest_mtime)

\* A probe that returned after an unstatable file and a statable one.
C5_Witness ==
    /\ probe_pc = "returned"
    /\ errors >= 1
    /\ scanned >= 1

\* C10: at return latest_mtime is the largest mtime among the files counted
\* in scanned, and it is None exactly when scanned is 0; the delete manifest
\* renders a None as the text unknown.
C10_LatestIsMaxOrAbsent ==
    /\ probe_pc = "returned" =>
           /\ IsNone(latest_mtime) <=> scanned = 0
           /\ ~IsNone(latest_mtime) =>
                  /\ \E i \in Counted : fs[i].st_mtime = Val(latest_mtime)
                  /\ \A i \in Counted : fs[i].st_mtime <= Val(latest_mtime)
    /\ (probe_pc = "returned" /\ write_pc = "returned" /\ scanned = 0) =>
           Val(file) = << Header, ProbedPath \o <<",">> \o <<"0">> \o <<",">> \o Unknown >>

\* The manifest of a tree whose only files could not be stat'ed.
C10_Witness ==
    /\ probe_pc = "returned"
    /\ write_pc = "returned"
    /\ scanned = 0
    /\ errors >= 1
    /\ SplitOn(",", Val(file)[2])[3] = Unknown

\* ---- format_age
\* C6, as stated: "0d" for every timestamp at or after the current time.
C6_ZeroDaysAtOrAfterNow ==
    (age_pc = "done" /\ ~IsNone(age_ts) /\ Val(age_ts) >= age_now) => age_out = ZeroDays

\* C6, amended: "0d" for every timestamp after the current time, "0m" for a
\* timestamp equal to it, and no negative number for either.
C6_ZeroDaysAfterNow ==
    (age_pc = "done" /\ ~IsNone(age_ts)) =>
        /\ Val(age_ts) > age_now => age_out = ZeroDays
        /\ Val(age_ts) = age_now => age_out = <<"0", "m">>
        /\ Val(age_ts) >= age_now => age_out[1] # "-"

\* A call with a timestamp in the future.
C6_Witness ==
    /\ age_pc = "done"
    /\ ~IsNone(age_ts)
    /\ Val(age_ts) > age_now
    /\ age_out = ZeroDays

\* ---- the manifest writers
\* The path and size_bytes columns of the rows of a manifest.
PathSizeColumns(lines) ==
    [k \in 1..Len(lines) |-> SubSeq(SplitOn(",", lines[k]), 1, 2)]

\* C7: after a writer returns, the file is the header line followed by one
\* line per item in the order of the list, whatever it held before: line k+1
\* has three fields, the item's path, its size in decimal and an age; a move
\* manifest is in descending size order; and a second write of the same list
\* gives the same path and size_bytes columns as the first.
C7_ManifestIsHeaderAndRows ==
    write_pc = "returned" =>
        /\ ~IsNone(file)
        /\ Len(Val(file)) = Len(items) + 1
        /\ Val(file)[1] = Header
        /\ \A k \in 1..Len(items) :
               LET cols == SplitOn(",", Val(file)[k + 1])
               IN  /\ Len(cols) = 3
                   /\ cols[1] = items[k].path
                   /\ ParseNat(cols[2]) = items[k].size
                   /\ cols[3] # <<>>
        /\ wkind = "move" =>
               \A k \in 2..Len(items) :
                   ParseNat(SplitOn(",", Val(file)[k])[2])
                       >= ParseNat(SplitOn(",", Val(file)[k + 1])[2])
        /\ runs >= 2 => PathSizeColumns(Val(file)) = PathSizeColumns(Val(first_file))

\* A second write of a list of two items, over the first write's file, whose
\* age column differs from the first's because time went by.
C7_Witness ==
    /\ write_pc = "returned"
    /\ runs = 2
    /\ Len(items) >= 2
    /\ Val(file) # Val(first_file)

\* C8: a write fails only when the destination cannot be created or written:
\* with a creatable, writable destination it succeeds, be the parent
\* directory missing, present, or absent from the path (a bare file name).
C8_FailsOnlyWhenUnwritable ==
    write_pc = "raised" => ~writable

\* ---- main
Count(e) == Cardinality({ k \in 1..Len(log) : log[k] = e })

Ran(e) == e \in Range(log)

\* C9: main exits with 0 when the delegated tool was not invoked and with the
\* tool's status when it was; the tool is invoked at most once, last, only
\* with --run-move and without --xcode-only, after the report and, with
\* --scan-move, after the scan and its manifest; with --xcode-only neither
\* the scan nor the tool runs.
C9_ExitCodeAndDelegation ==
    /\ main_pc = "exited" =>
           exit_code = Some(IF Ran("run_move") THEN tool_status ELSE 0)
    /\ main_pc # "exited" => IsNone(exit_code)
    /\ Count("run_move") <= 1
    /\ Ran("run_move") =>
           /\ args.run_move /\ ~args.xcode_only
           /\ log[Len(log)] = "run_move"
           /\ log[1] = "report"
           /\ args.scan_move => (Ran("scan") /\ Ran("move_manifest"))
    /\ args.xcode_only => (~Ran("scan") /\ ~Ran("run_move"))

\* A run that scanned, wrote the move manifest and exited with the status
\* of the delegated tool.
C9_Witness ==
    /\ main_pc = "exited"
    /\ args.scan_move
    /\ Ran("move_manifest")
    /\ Ran("run_move")
    /\ tool_status = 101
    /\ exit_code = Some(101)

====
